---- MODULE Spec2Model ----
(***************************************************************************)
(* Model of falcon/cyutil/mediatypes.pyx: parse_header, _parse_bytes and   *)
(* _trimmed.  Text is a sequence of Unicode code points, the buffer a      *)
(* sequence of bytes; buffer indices are 0-based as in the source.         *)
(***************************************************************************)
EXTENDS Integers, Sequences, FiniteSets, TLC

\* ------------------------------------------------------------------ bounds
\* Longest input text, in code points.
MaxLen == 4
\* Calls of parse_header in one behaviour: the first on the input, the next
\* ones on the primary token the previous call returned.
MaxCalls == 2

\* Longest input text of a call that runs beside another call.
CallMaxLen == 2

\* --------------------------------------------------------- program constants
SEMI == 59
QUOTE == 34
NUL == 0

\* cdef EMPTY = ''
EMPTY == <<>>

\* IsOWS with the tab left out of the byte set.
IsOWSNoTab(c) == c \in {32, 13, 10}

\* IsOWS with the byte set of bytes.strip(): vertical tab and form feed too.
IsOWSWithFormFeed(c) == c \in {32, 9, 13, 10, 11, 12}

\* The byte set of `data[pos] not in b' \t\r\n'`.
IsOWS(c) == c \in {32, 9, 13, 10}

\* cdef dict params = {}
EmptyDict == [k \in {} |-> <<>>]

\* NewDict that hands out one module-level dict to every call.
NewDictShared(h) == 1

\* The identity of the dict object that `{}` creates: one no object has yet.
NewDict(h) == Cardinality(DOMAIN h) + 1

\* ------------------------------------------------------------- input texts
\* Code points the inputs are drawn from: the four whitespace characters,
\* `;`, `"`, an ASCII letter (a), a form feed (whitespace to str.strip, not
\* to _trimmed), a two-byte character (U+00E9) and a lone surrogate
\* (U+D800), which a Python str may hold.
Chars == {32, 9, 13, 10, 59, 34, 97, 12, 233, 55296}

Texts == UNION {[1..n -> Chars] : n \in 0..MaxLen}

\* ------------------------------------------------------- str.encode (UTF-8)
IsSurrogate(c) == c \in 55296..57343

\* line.encode() raises UnicodeEncodeError on a lone surrogate.
Encodable(s) == \A i \in 1..Len(s) : ~IsSurrogate(s[i])

EncodeChar(c) ==
    IF c < 128 THEN <<c>>
    ELSE IF c < 2048 THEN <<192 + (c \div 64), 128 + (c % 64)>>
    ELSE IF c < 65536
         THEN <<224 + (c \div 4096), 128 + ((c \div 64) % 64), 128 + (c % 64)>>
    ELSE <<240 + (c \div 262144), 128 + ((c \div 4096) % 64),
           128 + ((c \div 64) % 64), 128 + (c % 64)>>

\* Encode as ISO-8859-1 would: one byte per code point, no UTF-8 sequences.
EncodeLatin1(s) == s

RECURSIVE Encode(_)
Encode(s) == IF s = <<>> THEN <<>> ELSE EncodeChar(Head(s)) \o Encode(Tail(s))

\* ------------------------------------------------- bytes.decode('utf-8')
IsCont(b) == b \in 128..191

\* Length of the well-formed UTF-8 sequence that starts at 1-based index i
\* of b, or 0 when none starts there.
SeqLen(b, i) ==
    LET x == b[i]
        n == Len(b)
    IN  IF x < 128 THEN 1
        ELSE IF x \in 194..223 /\ i + 1 <= n /\ IsCont(b[i+1]) THEN 2
        ELSE IF x \in 224..239 /\ i + 2 <= n /\ IsCont(b[i+1]) /\ IsCont(b[i+2])
                /\ (x = 224 => b[i+1] >= 160) /\ (x = 237 => b[i+1] <= 159) THEN 3
        ELSE IF x \in 240..244 /\ i + 3 <= n /\ IsCont(b[i+1]) /\ IsCont(b[i+2])
                /\ IsCont(b[i+3])
                /\ (x = 240 => b[i+1] >= 144) /\ (x = 244 => b[i+1] <= 143) THEN 4
        ELSE 0

CodePoint(b, i, k) ==
    IF k = 1 THEN b[i]
    ELSE IF k = 2 THEN (b[i] - 192) * 64 + (b[i+1] - 128)
    ELSE IF k = 3 THEN (b[i] - 224) * 4096 + (b[i+1] - 128) * 64 + (b[i+2] - 128)
    ELSE (b[i] - 240) * 262144 + (b[i+1] - 128) * 4096
         + (b[i+2] - 128) * 64 + (b[i+3] - 128)

RECURSIVE ValidFrom(_, _)
ValidFrom(b, i) ==
    IF i > Len(b) THEN TRUE
    ELSE LET k == SeqLen(b, i) IN k > 0 /\ ValidFrom(b, i + k)

RECURSIVE DecodeFrom(_, _)
DecodeFrom(b, i) ==
    IF i > Len(b) THEN <<>>
    ELSE LET k == SeqLen(b, i) IN <<CodePoint(b, i, k)>> \o DecodeFrom(b, i + k)

\* Whether b.decode('utf-8') returns (it raises UnicodeDecodeError otherwise).
Decodable(b) == ValidFrom(b, 1)

Decode(b) == DecodeFrom(b, 1)

\* ------------------------------------------------------------ the buffer
\* data[i] on the unsigned char* of a bytes object: CPython keeps a NUL
\* after the last byte.
ByteAt(d, i) == IF i \in 0..(Len(d) - 1) THEN d[i + 1] ELSE NUL

\* Slice with the stop one short: data[a:b-1].
SliceShort(d, a, b) == SubSeq(d, a + 1, b - 1)

\* data[a:b]
Slice(d, a, b) == SubSeq(d, a + 1, b)

\* ScanRange with the stop one too far: range(0, length + 1).
ScanRangeInclusive(n) == 0..n

\* range(0, length)
ScanRange(n) == 0..(n - 1)

\* ------------------------------------------------- the build-wheels workflow
\* The events that start a run (on: release, workflow_dispatch).
Events == {"release", "workflow_dispatch"}

\* Two of the eight platforms of the build-wheels matrix, one of them
\* emulated, and one of its five interpreters.
Platforms == {[name |-> "manylinux_x86_64", emulation |-> FALSE],
              [name |-> "manylinux_s390x", emulation |-> TRUE]}
Pythons == {"cp314"}

\* A job is named by its key and, for a matrix job, its platform and python.
Plain(n) == <<n, "", "">>
MatrixJobs == {<<"build-wheels", p.name, y>> : p \in Platforms, y \in Pythons}
Jobs == {Plain(n) : n \in {"build-sdist", "upload-sdist", "publish-sdist",
                           "check-wheels", "publish-wheels"}} \cup MatrixJobs

\* Needs in which publish-wheels waits for check-wheels alone.
NeedsWithoutPublishSdist(j) ==
    CASE j[1] = "build-sdist" -> {}
      [] j[1] = "upload-sdist" -> {Plain("build-sdist")}
      [] j[1] = "publish-sdist" -> {Plain("upload-sdist")}
      [] j[1] = "build-wheels" -> {Plain("build-sdist")}
      [] j[1] = "check-wheels" -> MatrixJobs
      [] j[1] = "publish-wheels" -> {Plain("check-wheels")}

\* The `needs` key of each job.
Needs(j) ==
    CASE j[1] = "build-sdist" -> {}
      [] j[1] = "upload-sdist" -> {Plain("build-sdist")}
      [] j[1] = "publish-sdist" -> {Plain("upload-sdist")}
      [] j[1] = "build-wheels" -> {Plain("build-sdist")}
      [] j[1] = "check-wheels" -> MatrixJobs
      [] j[1] = "publish-wheels" -> {Plain("check-wheels"), Plain("publish-sdist")}

StepOf(n, c) == [name |-> n, cond |-> c]

\* The steps of each job in order, each with the condition of its `if` key
\* ("" when it has none).
Steps(j) ==
    CASE j[1] = "build-sdist" ->
            <<StepOf("Checkout repository", ""),
              StepOf("Set up Python", ""),
              StepOf("Build sdist and pure-Python wheel", ""),
              StepOf("Check built artifacts", ""),
              StepOf("Test sdist", ""),
              StepOf("Test pure-Python wheel", ""),
              StepOf("Upload artifacts", "")>>
      [] j[1] = "upload-sdist" ->
            <<StepOf("Checkout repository", ""),
              StepOf("Set up Python", ""),
              StepOf("Download artifacts", ""),
              StepOf("Check collected artifacts", ""),
              StepOf("Upload sdist to release", "release")>>
      [] j[1] = "publish-sdist" ->
            <<StepOf("Download artifacts", ""),
              StepOf("Publish sdist and pure-Python wheel to TestPyPI", "workflow_dispatch"),
              StepOf("Publish sdist and pure-Python wheel to PyPI", "release")>>
      [] j[1] = "build-wheels" ->
            <<StepOf("Checkout repository", ""),
              StepOf("Set up QEMU", "emulation"),
              StepOf("Build wheels", ""),
              StepOf("Upload artifacts", "")>>
      [] j[1] = "check-wheels" ->
            <<StepOf("Checkout repository", ""),
              StepOf("Set up Python", ""),
              StepOf("Download artifacts", ""),
              StepOf("Check collected artifacts", "")>>
      [] j[1] = "publish-wheels" ->
            <<StepOf("Download artifacts", ""),
              StepOf("Publish binary wheels to TestPyPI", "workflow_dispatch"),
              StepOf("Publish binary wheels to PyPI", "release")>>

\* matrix.platform.emulation of a matrix job.
Emulation(j) == \E p \in Platforms : p.name = j[2] /\ p.emulation

\* IfHolds for steps whose `if` key is ignored.
IfHoldsAlways(j, s, e) == TRUE

\* Whether the `if` of step s of job j holds in a run started by event e.
IfHolds(j, s, e) ==
    CASE s.cond = "" -> TRUE
      [] s.cond = "emulation" -> Emulation(j)
      [] OTHER -> e = s.cond

\* ------------------------------------------------------------------ state
VARIABLES
    line,       \* parse_header's argument
    data,       \* line.encode()
    length,     \* len(data)
    start,      \* _parse_bytes: cdef Py_ssize_t start = 0
    end,        \* _parse_bytes: cdef Py_ssize_t end = length
    pos,        \* _parse_bytes: loop variable
    in_quotes,  \* _parse_bytes: cdef bint in_quotes = False
    params,     \* _parse_bytes: cdef dict params = {}
    t_start,    \* _trimmed: parameter start
    t_end,      \* _trimmed: parameter end
    t_pos,      \* _trimmed: loop variable pos
    result,     \* the returned (primary_token, params) pair; <<>> before
    err,        \* the exception that ended the call; "" when none
    reads,      \* the buffer indices read so far in this call
    calls,      \* calls of parse_header started so far
    pc,         \* where the call is
    running,    \* the call whose frame the variables above hold
    saved,      \* the frames of the calls that are switched out
    objs,       \* the dict objects created so far: identity -> content
    param_obj,  \* the identity of the dict that params is bound to; 0: none
    mutated,    \* the calls whose caller changed the mapping returned
    event_name, \* github.event_name of the workflow run; "" before it starts
    status,     \* the status or conclusion of each job of the run
    step,       \* for each job, the index in Steps of its next step
    ran         \* the steps executed so far, as <<job, step name>>

call_vars == <<running, saved, objs, param_obj, mutated>>

wf_vars == <<event_name, status, step, ran>>

parse_vars == <<line, data, length, start, end, pos, in_quotes, params,
                t_start, t_end, t_pos, result, err, reads, calls, pc>>

vars == <<line, data, length, start, end, pos, in_quotes, params,
          t_start, t_end, t_pos, result, err, reads, calls, pc, call_vars,
          wf_vars>>

\* No run of the workflow has been triggered.
WorkflowIdle ==
    /\ event_name = ""
    /\ status = [j \in Jobs |-> "queued"]
    /\ step = [j \in Jobs |-> 1]
    /\ ran = {}

scan_vars == <<start, end, pos, in_quotes, params>>
trim_vars == <<t_start, t_end, t_pos>>

Init ==
    /\ line \in Texts
    /\ data = <<>>
    /\ length = 0
    /\ start = 0
    /\ end = 0
    /\ pos = 0
    /\ in_quotes = FALSE
    /\ params = EmptyDict
    /\ t_start = 0
    /\ t_end = 0
    /\ t_pos = 0
    /\ result = <<>>
    /\ err = ""
    /\ reads = {}
    /\ calls = 1
    /\ pc = "call"
    /\ running = 1
    /\ saved = <<>>
    /\ objs = <<>>
    /\ param_obj = 0
    /\ mutated = {}
    /\ WorkflowIdle

\* parse_header (lines 39-42) up to the first loop test of _parse_bytes
\* (lines 21-26).
parse_header ==
    /\ pc = "call"
    /\ IF Encodable(line)
       THEN /\ data' = Encode(line)
            /\ length' = Len(data')
            /\ start' = 0
            /\ end' = length'
            /\ pos' = 0
            /\ params' = EmptyDict
            /\ param_obj' = NewDict(objs)
            /\ objs' = (param_obj' :> EmptyDict) @@ objs
            /\ in_quotes' = FALSE
            /\ pc' = "scan"
            /\ err' = err
       ELSE /\ pc' = "error"
            /\ err' = "UnicodeEncodeError"
            /\ UNCHANGED <<data, length, scan_vars, objs, param_obj>>
    /\ UNCHANGED <<line, trim_vars, result, reads, calls, running, saved, mutated>>
    /\ UNCHANGED wf_vars

\* ScanStep that stores the text after the separator in params before it
\* returns.
ScanStepStoresRest ==
    /\ pc = "scan"
    /\ pos \in ScanRange(length)
    /\ LET c == ByteAt(data, pos)
       IN  /\ reads' = reads \cup {pos}
           /\ IF in_quotes /\ c # QUOTE
              THEN /\ pos' = pos + 1
                   /\ UNCHANGED <<in_quotes, trim_vars, pc, params>>
              ELSE /\ in_quotes' = IF in_quotes THEN FALSE ELSE in_quotes
                   /\ IF c = SEMI
                      THEN /\ t_start' = start
                           /\ t_end' = pos
                           /\ t_pos' = start
                           /\ pc' = "lead"
                           /\ pos' = pos
                           /\ params' = [k \in {Slice(data, pos + 1, length)} |-> <<>>]
                      ELSE /\ pos' = pos + 1
                           /\ UNCHANGED <<trim_vars, pc, params>>
    /\ UNCHANGED <<line, data, length, start, end, result, err, calls>>
    /\ UNCHANGED call_vars
    /\ UNCHANGED wf_vars

\* ScanStep whose early return keeps the separator in the span:
\* _trimmed(data, start, pos + 1).
ScanStepKeepsSeparator ==
    /\ pc = "scan"
    /\ pos \in ScanRange(length)
    /\ LET c == ByteAt(data, pos)
       IN  /\ reads' = reads \cup {pos}
           /\ IF in_quotes /\ c # QUOTE
              THEN /\ pos' = pos + 1
                   /\ UNCHANGED <<in_quotes, trim_vars, pc>>
              ELSE /\ in_quotes' = IF in_quotes THEN FALSE ELSE in_quotes
                   /\ IF c = SEMI
                      THEN /\ t_start' = start
                           /\ t_end' = pos + 1
                           /\ t_pos' = start
                           /\ pc' = "lead"
                           /\ pos' = pos
                      ELSE /\ pos' = pos + 1
                           /\ UNCHANGED <<trim_vars, pc>>
    /\ UNCHANGED <<line, data, length, start, end, params, result, err, calls>>
    /\ UNCHANGED call_vars
    /\ UNCHANGED wf_vars

\* ScanStep whose early return hands _trimmed the whole buffer:
\* _trimmed(data, start, length).
ScanStepTrimsToLength ==
    /\ pc = "scan"
    /\ pos \in ScanRange(length)
    /\ LET c == ByteAt(data, pos)
       IN  /\ reads' = reads \cup {pos}
           /\ IF in_quotes /\ c # QUOTE
              THEN /\ pos' = pos + 1
                   /\ UNCHANGED <<in_quotes, trim_vars, pc>>
              ELSE /\ in_quotes' = IF in_quotes THEN FALSE ELSE in_quotes
                   /\ IF c = SEMI
                      THEN /\ t_start' = start
                           /\ t_end' = length
                           /\ t_pos' = start
                           /\ pc' = "lead"
                           /\ pos' = pos
                      ELSE /\ pos' = pos + 1
                           /\ UNCHANGED <<trim_vars, pc>>
    /\ UNCHANGED <<line, data, length, start, end, params, result, err, calls>>
    /\ UNCHANGED call_vars
    /\ UNCHANGED wf_vars

\* ScanStep that goes back to the start of the buffer after a `"`.
ScanStepRewindsOnQuote ==
    /\ pc = "scan"
    /\ pos \in ScanRange(length)
    /\ LET c == ByteAt(data, pos)
       IN  /\ reads' = reads \cup {pos}
           /\ IF in_quotes /\ c # QUOTE
              THEN /\ pos' = pos + 1
                   /\ UNCHANGED <<in_quotes, trim_vars, pc>>
              ELSE /\ in_quotes' = IF in_quotes THEN FALSE ELSE in_quotes
                   /\ IF c = SEMI
                      THEN /\ t_start' = start
                           /\ t_end' = pos
                           /\ t_pos' = start
                           /\ pc' = "lead"
                           /\ pos' = pos
                      ELSE /\ pos' = IF c = QUOTE THEN 0 ELSE pos + 1
                           /\ UNCHANGED <<trim_vars, pc>>
    /\ UNCHANGED <<line, data, length, start, end, params, result, err, calls>>
    /\ UNCHANGED call_vars
    /\ UNCHANGED wf_vars

\* One iteration of `for pos in range(0, length)` (lines 28-36).
ScanStep ==
    /\ pc = "scan"
    /\ pos \in ScanRange(length)
    /\ LET c == ByteAt(data, pos)
       IN  /\ reads' = reads \cup {pos}
           /\ IF in_quotes /\ c # QUOTE
              THEN \* continue
                   /\ pos' = pos + 1
                   /\ UNCHANGED <<in_quotes, trim_vars, pc>>
              ELSE /\ in_quotes' = IF in_quotes THEN FALSE ELSE in_quotes
                   /\ IF c = SEMI
                      THEN \* return (_trimmed(data, start, pos), params)
                           /\ t_start' = start
                           /\ t_end' = pos
                           /\ t_pos' = start
                           /\ pc' = "lead"
                           /\ pos' = pos
                      ELSE /\ pos' = pos + 1
                           /\ UNCHANGED <<trim_vars, pc>>
    /\ UNCHANGED <<line, data, length, start, end, params, result, err, calls>>
    /\ UNCHANGED call_vars
    /\ UNCHANGED wf_vars

\* The loop is exhausted: return (_trimmed(data, start, length), params)
\* (line 37).
ScanEnd ==
    /\ pc = "scan"
    /\ pos \notin ScanRange(length)
    /\ t_start' = start
    /\ t_end' = length
    /\ t_pos' = start
    /\ pc' = "lead"
    /\ UNCHANGED <<line, data, length, scan_vars, result, err, reads, calls>>
    /\ UNCHANGED call_vars
    /\ UNCHANGED wf_vars

\* TrimLeadStep with the new start one past the byte found: start = pos + 1.
TrimLeadStepOffByOne ==
    /\ pc = "lead"
    /\ t_pos < t_end
    /\ reads' = reads \cup {t_pos}
    /\ IF ~IsOWS(ByteAt(data, t_pos))
       THEN /\ t_start' = t_pos + 1
            /\ t_pos' = t_end
            /\ pc' = "trail"
            /\ t_end' = t_end
       ELSE /\ t_pos' = t_pos + 1
            /\ UNCHANGED <<t_start, t_end, pc>>
    /\ UNCHANGED <<line, data, length, scan_vars, result, err, calls>>
    /\ UNCHANGED call_vars
    /\ UNCHANGED wf_vars

\* One iteration of `for pos in range(start, end)` of _trimmed (lines 5-8).
TrimLeadStep ==
    /\ pc = "lead"
    /\ t_pos < t_end
    /\ reads' = reads \cup {t_pos}
    /\ IF ~IsOWS(ByteAt(data, t_pos))
       THEN \* start = pos; break; then range(end, start+1, -1) begins at end
            /\ t_start' = t_pos
            /\ t_pos' = t_end
            /\ pc' = "trail"
            /\ t_end' = t_end
       ELSE /\ t_pos' = t_pos + 1
            /\ UNCHANGED <<t_start, t_end, pc>>
    /\ UNCHANGED <<line, data, length, scan_vars, result, err, calls>>
    /\ UNCHANGED call_vars
    /\ UNCHANGED wf_vars

\* TrimLeadEmpty that returns the span it was given, whitespace and all,
\* where the source returns EMPTY.
TrimLeadEmptyReturnsSpan ==
    /\ pc = "lead"
    /\ t_pos >= t_end
    /\ result' = <<Decode(Slice(data, t_start, t_end)), params>>
    /\ pc' = "done"
    /\ UNCHANGED <<line, data, length, scan_vars, trim_vars, err, reads, calls>>
    /\ UNCHANGED call_vars
    /\ UNCHANGED wf_vars

\* The for-else of the first loop: return EMPTY (lines 9-10), which
\* _parse_bytes pairs with params.
TrimLeadEmpty ==
    /\ pc = "lead"
    /\ t_pos >= t_end
    /\ result' = <<EMPTY, params>>
    /\ pc' = "done"
    /\ UNCHANGED <<line, data, length, scan_vars, trim_vars, err, reads, calls>>
    /\ UNCHANGED call_vars
    /\ UNCHANGED wf_vars

\* TrimTrailStep that tests data[pos] where the source tests data[pos-1].
TrimTrailStepReadsPos ==
    /\ pc = "trail"
    /\ t_pos > t_start + 1
    /\ reads' = reads \cup {t_pos}
    /\ IF ~IsOWS(ByteAt(data, t_pos))
       THEN /\ t_end' = t_pos
            /\ pc' = "decode"
            /\ t_pos' = t_pos
       ELSE /\ t_pos' = t_pos - 1
            /\ UNCHANGED <<t_end, pc>>
    /\ UNCHANGED <<line, data, length, scan_vars, t_start, result, err, calls>>
    /\ UNCHANGED call_vars
    /\ UNCHANGED wf_vars

\* One iteration of `for pos in range(end, start+1, -1)` (lines 12-15).
TrimTrailStep ==
    /\ pc = "trail"
    /\ t_pos > t_start + 1
    /\ reads' = reads \cup {t_pos - 1}
    /\ IF ~IsOWS(ByteAt(data, t_pos - 1))
       THEN \* end = pos; break
            /\ t_end' = t_pos
            /\ pc' = "decode"
            /\ t_pos' = t_pos
       ELSE /\ t_pos' = t_pos - 1
            /\ UNCHANGED <<t_end, pc>>
    /\ UNCHANGED <<line, data, length, scan_vars, t_start, result, err, calls>>
    /\ UNCHANGED call_vars
    /\ UNCHANGED wf_vars

\* The second loop is exhausted without a break: end is left as passed in.
TrimTrailEnd ==
    /\ pc = "trail"
    /\ t_pos <= t_start + 1
    /\ pc' = "decode"
    /\ UNCHANGED <<line, data, length, scan_vars, trim_vars, result, err,
                   reads, calls>>
    /\ UNCHANGED call_vars
    /\ UNCHANGED wf_vars

\* TrimDecode that drops the `"` bytes of the span before decoding it.
TrimDecodeUnquoted ==
    /\ pc = "decode"
    /\ LET span == SelectSeq(Slice(data, t_start, t_end), LAMBDA b : b # QUOTE)
       IN  IF Decodable(span)
           THEN /\ result' = <<Decode(span), params>>
                /\ pc' = "done"
                /\ err' = err
           ELSE /\ pc' = "error"
                /\ err' = "UnicodeDecodeError"
                /\ result' = result
    /\ UNCHANGED <<line, data, length, scan_vars, trim_vars, reads, calls>>
    /\ UNCHANGED call_vars
    /\ UNCHANGED wf_vars

\* return data[start:end].decode('utf-8') (line 17), paired with params by
\* _parse_bytes (lines 36, 37).
TrimDecode ==
    /\ pc = "decode"
    /\ LET span == Slice(data, t_start, t_end)
       IN  IF Decodable(span)
           THEN /\ result' = <<Decode(span), params>>
                /\ pc' = "done"
                /\ err' = err
           ELSE /\ pc' = "error"
                /\ err' = "UnicodeDecodeError"
                /\ result' = result
    /\ UNCHANGED <<line, data, length, scan_vars, trim_vars, reads, calls>>
    /\ UNCHANGED call_vars
    /\ UNCHANGED wf_vars

\* The caller parses the primary token it was handed back.
Reparse ==
    /\ pc = "done"
    /\ calls < MaxCalls
    /\ line' = result[1]
    /\ calls' = calls + 1
    /\ data' = <<>>
    /\ length' = 0
    /\ start' = 0
    /\ end' = 0
    /\ pos' = 0
    /\ in_quotes' = FALSE
    /\ params' = EmptyDict
    /\ t_start' = 0
    /\ t_end' = 0
    /\ t_pos' = 0
    /\ result' = <<>>
    /\ reads' = {}
    /\ pc' = "call"
    /\ err' = err
    /\ param_obj' = 0
    /\ UNCHANGED <<running, saved, objs, mutated>>
    /\ UNCHANGED wf_vars

Next ==
    \/ parse_header
    \/ ScanStep
    \/ ScanEnd
    \/ TrimLeadStep
    \/ TrimLeadEmpty
    \/ TrimTrailStep
    \/ TrimTrailEnd
    \/ TrimDecode
    \/ Reparse

Spec == Init /\ [][Next]_vars

\* A call that has started runs on: the loop of _parse_bytes takes its next
\* iteration, or leaves through line 37, without waiting on anything.
FairSpec == Spec /\ WF_vars(ScanStep) /\ WF_vars(ScanEnd)

\* ------------------------------------------------- several calls at once
\* Two calls of parse_header whose steps interleave: the variables of the
\* scan hold the frame of the running call, and a switch stores it and
\* loads the frame of the other call.
CallIds == {1, 2}

\* A whitespace character, the separator and a quote.
CallChars == {32, 59, 34}

CallTexts == UNION {[1..n -> CallChars] : n \in 0..CallMaxLen}

\* The locals of the running call.
Frame ==
    [line |-> line, data |-> data, length |-> length, start |-> start,
     end |-> end, pos |-> pos, in_quotes |-> in_quotes, params |-> params,
     t_start |-> t_start, t_end |-> t_end, t_pos |-> t_pos,
     result |-> result, err |-> err, reads |-> reads, pc |-> pc,
     param_obj |-> param_obj]

\* The frame of a call that has not started yet.
FreshFrame(l) ==
    [line |-> l, data |-> <<>>, length |-> 0, start |-> 0,
     end |-> 0, pos |-> 0, in_quotes |-> FALSE, params |-> EmptyDict,
     t_start |-> 0, t_end |-> 0, t_pos |-> 0,
     result |-> <<>>, err |-> "", reads |-> {}, pc |-> "call",
     param_obj |-> 0]

\* Resume with the loop variables kept outside the frame, as module-level
\* variables would be: a call finds in pos what the last call to run left.
ResumeSharedPos(f) == [f EXCEPT !.pos = pos, !.t_pos = t_pos]

\* What a call finds in its locals when it runs again: what it left there
\* (start, end, pos, in_quotes, params are locals of the call).
Resume(f) == f

\* The running call is suspended and call j runs on.
Switch(j) ==
    /\ j \in DOMAIN saved
    /\ LET f == Resume(saved[j])
       IN  /\ line' = f.line
           /\ data' = f.data
           /\ length' = f.length
           /\ start' = f.start
           /\ end' = f.end
           /\ pos' = f.pos
           /\ in_quotes' = f.in_quotes
           /\ params' = f.params
           /\ t_start' = f.t_start
           /\ t_end' = f.t_end
           /\ t_pos' = f.t_pos
           /\ result' = f.result
           /\ err' = f.err
           /\ reads' = f.reads
           /\ pc' = f.pc
           /\ param_obj' = f.param_obj
    /\ saved' = [k \in (DOMAIN saved \ {j}) \cup {running} |->
                    IF k = running THEN Frame ELSE saved[k]]
    /\ running' = j
    /\ UNCHANGED <<calls, objs, mutated>>
    /\ UNCHANGED wf_vars

FrameOf(i) == IF i = running THEN Frame ELSE saved[i]

Finished(i) == FrameOf(i).pc = "done"

\* The caller of call j, which has returned, adds a key to the mapping it
\* was handed.
MutateReturned(j) ==
    /\ Finished(j)
    /\ j \notin mutated
    /\ objs' = [objs EXCEPT ![FrameOf(j).param_obj] = (<<97>> :> <<97>>) @@ @]
    /\ mutated' = mutated \cup {j}
    /\ UNCHANGED <<line, data, length, scan_vars, trim_vars, result, err,
                   reads, calls, pc, running, saved, param_obj>>
    /\ UNCHANGED wf_vars

CallsInit ==
    /\ line \in CallTexts
    /\ data = <<>>
    /\ length = 0
    /\ start = 0
    /\ end = 0
    /\ pos = 0
    /\ in_quotes = FALSE
    /\ params = EmptyDict
    /\ t_start = 0
    /\ t_end = 0
    /\ t_pos = 0
    /\ result = <<>>
    /\ err = ""
    /\ reads = {}
    /\ calls = 1
    /\ pc = "call"
    /\ running = 1
    /\ saved \in [CallIds \ {1} -> {FreshFrame(l) : l \in CallTexts}]
    /\ objs = <<>>
    /\ param_obj = 0
    /\ mutated = {}
    /\ WorkflowIdle

CallsNext ==
    \/ parse_header
    \/ ScanStep
    \/ ScanEnd
    \/ TrimLeadStep
    \/ TrimLeadEmpty
    \/ TrimTrailStep
    \/ TrimTrailEnd
    \/ TrimDecode
    \/ \E j \in CallIds : Switch(j)
    \/ \E j \in CallIds : MutateReturned(j)

CallsSpec == CallsInit /\ [][CallsNext]_vars

\* ------------------------------------------- parse_header as a function
\* _trimmed(data, start, end), run to its return.
Trimmed(d, a, b) ==
    LET lead == {p \in a..(b - 1) : ~IsOWS(ByteAt(d, p))}
    IN  IF lead = {} THEN EMPTY
        ELSE LET s0 == CHOOSE p \in lead : \A q \in lead : p <= q
                 trail == {p \in (s0 + 2)..b : ~IsOWS(ByteAt(d, p - 1))}
                 e0 == IF trail = {} THEN b
                       ELSE CHOOSE p \in trail : \A q \in trail : p >= q
             IN  Decode(Slice(d, s0, e0))

\* The loop of _parse_bytes from position p on, with in_quotes = q.
RECURSIVE ScanLoop(_, _, _)
ScanLoop(d, p, q) ==
    IF p \notin ScanRange(Len(d)) THEN <<Trimmed(d, 0, Len(d)), EmptyDict>>
    ELSE LET c == ByteAt(d, p)
         IN  IF q /\ c # QUOTE THEN ScanLoop(d, p + 1, q)
             ELSE IF c = SEMI THEN <<Trimmed(d, 0, p), EmptyDict>>
             ELSE ScanLoop(d, p + 1, FALSE)

\* parse_header(l) for a text l that encodes, run alone.
ParseAlone(l) == ScanLoop(Encode(l), 0, FALSE)

\* ============================================================== claims
\* What the claims speak of, stated on the text and independently of the
\* scan: the whitespace set, stripping, quoted positions.
Whitespace == {32, 9, 13, 10}

MinOf(S) == CHOOSE x \in S : \A y \in S : x <= y
MaxOf(S) == CHOOSE x \in S : \A y \in S : x >= y

\* s without its leading and trailing whitespace.
Stripped(s) ==
    LET keep == {i \in 1..Len(s) : s[i] \notin Whitespace}
    IN  IF keep = {} THEN <<>> ELSE SubSeq(s, MinOf(keep), MaxOf(keep))

Positions(s, c) == {i \in 1..Len(s) : s[i] = c}

\* Position i of s lies inside a quoted span: an odd number of `"` precede it.
InsideQuotes(s, i) == Cardinality({j \in 1..(i - 1) : s[j] = 34}) % 2 = 1

UnquotedSemis(s) == {i \in Positions(s, 59) : ~InsideQuotes(s, i)}

Returned == pc = "done"
Token == result[1]
Parameters == result[2]

\* The first `;` of the input lies between an opening `"` and its closing `"`.
FirstSemiInQuotedSpan(s) ==
    /\ Positions(s, 59) # {}
    /\ LET k == MinOf(Positions(s, 59))
       IN  /\ InsideQuotes(s, k)
           /\ \E j \in (k + 1)..Len(s) : s[j] = 34

\* C1: when the first `;` of the input lies inside a quoted span, the
\* returned primary token extends past it, so it holds that `;`.
C1_QuotedSemiNotSeparator ==
    (Returned /\ FirstSemiInQuotedSpan(line))
        => \E i \in 1..Len(Token) : Token[i] = 59

\* C2: when the input has an unquoted `;`, the primary token is the text
\* before the first unquoted `;`, stripped of surrounding whitespace.
C2_TokenBeforeFirstUnquotedSemi ==
    (Returned /\ UnquotedSemis(line) # {})
        => Token = Stripped(SubSeq(line, 1, MinOf(UnquotedSemis(line)) - 1))

\* C3: the returned primary token neither starts nor ends with a
\* whitespace character.
C3_TokenHasNoEdgeWhitespace ==
    (Returned /\ Token # <<>>)
        => (Token[1] \notin Whitespace /\ Token[Len(Token)] \notin Whitespace)

\* C4: for an input without `;` and without `"`, the result is the stripped
\* input with an empty parameters mapping.
C4_PlainInputStripped ==
    (Returned /\ Positions(line, 59) = {} /\ Positions(line, 34) = {})
        => (Token = Stripped(line) /\ DOMAIN Parameters = {})

\* C5: for an input with an unterminated quote (an odd number of `"`), the
\* primary token is the whole stripped input, every `;` retained.
C5_UnterminatedQuoteKeepsAll ==
    (Returned /\ Cardinality(Positions(line, 34)) % 2 = 1)
        => Token = Stripped(line)

\* C6: the second element of every returned pair is a mapping and is empty,
\* on the early return at `;` and on the return at the end of the input;
\* the scan never puts anything in params.
C6_ParametersAlwaysEmpty ==
    /\ DOMAIN params = {}
    /\ Returned => (Len(result) = 2 /\ DOMAIN Parameters = {})

\* A call that returned early at a `;` with a letter after the separator.
C6_Witness ==
    /\ Returned
    /\ pos \in ScanRange(length)
    /\ ByteAt(data, pos) = 59
    /\ \E i \in (pos + 1)..(length - 1) : ByteAt(data, i) = 97

\* C7: the call on the empty string reads no byte of the buffer, raises
\* nothing and returns the empty token with the empty mapping.
C7_EmptyInput ==
    (line = <<>>)
        => /\ reads = {}
           /\ pc # "error"
           /\ Returned => (Token = <<>> /\ DOMAIN Parameters = {})

C7_Witness == Returned /\ line = <<>> /\ calls = 1

\* C8: an input made only of space, tab, CR and LF, of any length and mix,
\* gives the empty token with the empty mapping.
C8_WhitespaceOnlyInput ==
    (line # <<>> /\ \A i \in 1..Len(line) : line[i] \in Whitespace)
        => /\ pc # "error"
           /\ Returned => (Token = <<>> /\ DOMAIN Parameters = {})

\* A returned call on a whitespace-only input that mixes two of the four.
C8_Witness ==
    /\ Returned
    /\ calls = 1
    /\ \A i \in 1..Len(line) : line[i] \in Whitespace
    /\ \E i, j \in 1..Len(line) : line[i] # line[j]

\* C9: a call on the primary token an earlier call returned gives that
\* token back unchanged, with the empty mapping (calls > 1 marks such a call:
\* its line is the previous result's token).
C9_Idempotent ==
    (calls > 1)
        => /\ pc # "error"
           /\ Returned => (Token = line /\ DOMAIN Parameters = {})

\* The second call returned, on a token of two or more characters that ends
\* with whitespace.
C9_Witness ==
    /\ Returned
    /\ calls > 1
    /\ Len(line) >= 2
    /\ line[Len(line)] \in Whitespace

\* C10 as stated: the call never ends in an error other than a failure to
\* decode the trimmed span.
C10_OnlyDecodeErrors == (pc = "error") => (err = "UnicodeDecodeError")

\* C10 amended: a text without lone surrogates never ends in an error and
\* the call is never stuck before it returns; a text with a lone surrogate
\* ends in UnicodeEncodeError raised by line.encode(), before any byte is
\* read; decoding the trimmed span never fails.
C10_TotalOnEncodableText ==
    /\ Encodable(line) => pc # "error"
    /\ (pc = "error")
          => (err = "UnicodeEncodeError" /\ ~Encodable(line) /\ reads = {})
    /\ (pc \notin {"done", "error"}) => ENABLED Next

\* A call that returned on a text with a non-ASCII character and an
\* unterminated quote.
C10_Witness ==
    /\ Returned
    /\ calls = 1
    /\ Positions(line, 233) # {}
    /\ Cardinality(Positions(line, 34)) % 2 = 1

\* ------------------------------------------------ claims on the byte span
\* The span _parse_bytes hands to _trimmed: data[start:pos] on the early
\* return, data[start:length] at the end of the input.
InTrimmed == pc \in {"lead", "trail", "decode", "done"}
SpanEnd == IF pos \in 0..(length - 1) THEN pos ELSE length

\* The indices of the span's bytes outside {space, tab, CR, LF}.
NonWS == {i \in start..(SpanEnd - 1) : data[i + 1] \notin Whitespace}

QuotesScanned == Cardinality({i \in 1..pos : data[i] = 34})

\* C13: during the scan the flag is `quoted` exactly when the prefix scanned
\* so far holds an odd number of `"` bytes.
C13_QuoteFlagIsParity ==
    (pc = "scan") => (in_quotes <=> (QuotesScanned % 2 = 1))

\* C14: when the span has a non-whitespace byte, the text _trimmed returns
\* ends at the last non-whitespace byte of the span.
C14_TrailingRunRemoved ==
    (pc \in {"decode", "done"} /\ NonWS # {}) => (t_end = MaxOf(NonWS) + 1)

\* C15: when the span has a non-whitespace byte, the text _trimmed returns
\* begins at the first one; when it has none, _trimmed returns the empty
\* string.
C15_LeadingRunRemoved ==
    (pc \in {"trail", "decode", "done"})
        => IF NonWS = {}
           THEN Returned /\ Token = <<>>
           ELSE /\ t_start = MinOf(NonWS)
                /\ Returned => (Encode(Token) = SubSeq(data, MinOf(NonWS) + 1, t_end))

\* A call returned a non-empty token from a span that begins with whitespace.
C15_Witness ==
    /\ Returned
    /\ NonWS # {}
    /\ MinOf(NonWS) > start
    /\ Token # <<>>

\* C16: trimming removes only bytes of {space, tab, CR, LF}: every byte of
\* the span left out of the returned text is one of the four, so a byte
\* outside the set at either edge of the span is the first or last byte of
\* the token.
C16_OnlyWhitespaceTrimmed ==
    (pc \in {"decode", "done"} /\ NonWS # {})
        => /\ \A i \in start..(SpanEnd - 1) :
                  (i < t_start \/ i >= t_end) => data[i + 1] \in Whitespace
           /\ (start \in NonWS) => (t_start = start)
           /\ ((SpanEnd - 1) \in NonWS) => (t_end = SpanEnd)
           /\ Returned => (Encode(Token) = SubSeq(data, t_start + 1, t_end))

\* A call returned a token that begins with a form feed, kept although
\* whitespace precedes it in the input.
C16_Witness ==
    /\ Returned
    /\ Token # <<>>
    /\ Token[1] = 12
    /\ line[1] \in Whitespace

\* C18: every buffer index read lies in 0..length-1, and the bounds of the
\* slice satisfy 0 <= start <= end <= length.
C18_ReadsInsideBuffer ==
    /\ \A i \in reads : 0 <= i /\ i < length
    /\ InTrimmed => (0 <= t_start /\ t_start <= t_end /\ t_end <= length)

\* A call returned on an input of several bytes whose span ends at a `;` in
\* position 0.
C18_Witness ==
    /\ Returned
    /\ length > 1
    /\ data[1] = 59
    /\ reads # {}

\* C19: for a text without lone surrogates the trimmed span is well-formed
\* UTF-8, the call does not end in an error, and the token is a contiguous
\* substring of the text.
C19_SpanOnCharacterBoundaries ==
    Encodable(line)
        => /\ pc # "error"
           /\ (pc = "decode") => Decodable(SubSeq(data, t_start + 1, t_end))
           /\ Returned => \E a \in 1..(Len(line) + 1) : \E b \in 0..Len(line) :
                              Token = SubSeq(line, a, b)

\* A call returned a token with a two-byte character, shorter than its input.
C19_Witness ==
    /\ Returned
    /\ Positions(Token, 233) # {}
    /\ Len(Token) < Len(line)

\* C20: the returned primary token holds no `;`.
C20_TokenHasNoSemi == Returned => (Positions(Token, 59) = {})

\* A call returned a non-empty token from an input with two `;`.
C20_Witness ==
    /\ Returned
    /\ Token # <<>>
    /\ Cardinality(Positions(line, 59)) >= 2

\* ------------------------------------------------ claims on several calls
\* C11: with the steps of the calls interleaved in any order, no call ends
\* in an error and every call that returns has the result parse_header
\* gives for its input when run alone.
C11_InterleavedSameAsAlone ==
    \A i \in CallIds :
        /\ FrameOf(i).pc # "error"
        /\ Finished(i) => (FrameOf(i).result = ParseAlone(FrameOf(i).line))

\* Call 2 ran from its first step to its return while call 1 was suspended
\* in the middle of its scan.
C11_Witness ==
    /\ running = 2
    /\ pc = "done"
    /\ saved[1].pc = "scan"
    /\ saved[1].pos > 0

\* C12: the mapping a call returns is an object of its own, so it is still
\* empty after the caller of another call changed the mapping that call
\* returned; the input bytes are never written.
C12_FreshMappingNoSideEffect ==
    /\ \A i, j \in CallIds :
           (i # j /\ FrameOf(i).param_obj # 0 /\ FrameOf(j).param_obj # 0)
               => FrameOf(i).param_obj # FrameOf(j).param_obj
    /\ \A i \in CallIds :
           (Finished(i) /\ i \notin mutated)
               => DOMAIN objs[FrameOf(i).param_obj] = {}
    /\ \A i \in CallIds :
           (FrameOf(i).pc \notin {"call", "error"})
               => FrameOf(i).data = Encode(FrameOf(i).line)

\* Both calls returned and the mapping of one only was changed.
C12_Witness ==
    \E i, j \in CallIds :
        /\ Finished(i) /\ Finished(j)
        /\ j \in mutated /\ i \notin mutated

AgreeThroughFirstSemi(x, y) ==
    /\ Positions(x, 59) # {}
    /\ Positions(y, 59) # {}
    /\ LET k == MinOf(Positions(x, 59))
       IN  k = MinOf(Positions(y, 59)) /\ SubSeq(x, 1, k) = SubSeq(y, 1, k)

Core == IF NonWS = {} THEN <<>> ELSE SubSeq(data, MinOf(NonWS) + 1, MaxOf(NonWS) + 1)

IsSliceOf(t, s) == \E a \in 1..(Len(s) + 1) : t = SubSeq(s, a, a + Len(t) - 1)

\* C21: the returned token is a contiguous slice of the input: its bytes are
\* data[t_start:t_end] unchanged, every byte of the span between its first
\* and last non-whitespace byte is in it (interior whitespace included), and
\* every `"` of the span is kept.
C21_TokenIsContiguousSlice ==
    Returned
        => /\ IsSliceOf(Token, line)
           /\ IsSliceOf(Encode(Token), data)
           /\ (NonWS # {}) => /\ Encode(Token) = SubSeq(data, t_start + 1, t_end)
                              /\ IsSliceOf(Core, Encode(Token))
           /\ Cardinality(Positions(Encode(Token), QUOTE))
                  = Cardinality({i \in start..(SpanEnd - 1) : data[i + 1] = QUOTE})

\* A call returned a token that holds a `"` and whitespace between two other
\* bytes.
C21_Witness ==
    /\ Returned
    /\ Positions(Token, QUOTE) # {}
    /\ \E i \in 2..(Len(Token) - 1) : Token[i] \in Whitespace

\* The first character of a text outside {space, tab, CR, LF}, 0 when there
\* is none.
FirstNonWS(s) ==
    LET I == {i \in 1..Len(s) : s[i] \notin Whitespace}
    IN  IF I = {} THEN 0 ELSE s[MinOf(I)]

\* C22: when the first non-whitespace character of the input is `;`, the
\* call returns the empty string and an empty mapping.
C22_LeadingSemiGivesEmpty ==
    (Returned /\ FirstNonWS(line) = SEMI) => (result = <<EMPTY, EmptyDict>>)

\* A call returned on an input of whitespace, then `;`, then more text.
C22_Witness ==
    /\ Returned
    /\ Len(line) > 2
    /\ line[1] \in Whitespace
    /\ line[2] = SEMI
    /\ line[3] \notin Whitespace

\* ------------------------------------------------ claims on the scan
\* C23: the scan visits positions 0, 1, 2, ... in increasing order, each
\* once (the positions read so far are exactly 0..pos-1 and an iteration that
\* stays in the loop moves pos up by one), it leaves the loop after at most
\* `length` iterations, and it always leaves the loop.
C23_ScanSinglePassTerminates ==
    /\ []((pc = "scan") => (pos \in 0..length /\ reads = 0..(pos - 1)))
    /\ [][(pc = "scan" /\ pc' = "scan") => (pos' = pos + 1 /\ reads' = reads \cup {pos})]_vars
    /\ [][(pc = "scan" /\ pc' # "scan") => (pc' = "lead" /\ Cardinality(reads') <= length)]_vars
    /\ ((pc = "scan") ~> (pc = "lead"))

\* The scan left the loop at its end after visiting every position of a
\* buffer of three bytes or more.
C23_Witness ==
    /\ pc = "lead"
    /\ t_pos = t_start
    /\ pos = length
    /\ length >= 3
    /\ reads = 0..(length - 1)

\* ------------------------------------------------- a run of build-wheels
\* A release is created, or the workflow is dispatched by hand (lines 4-10).
Trigger(e) ==
    /\ event_name = ""
    /\ event_name' = e
    /\ UNCHANGED <<status, step, ran, parse_vars, call_vars>>

\* A job starts once every job it needs has succeeded.
StartJob(j) ==
    /\ event_name # ""
    /\ status[j] = "queued"
    /\ \A n \in Needs(j) : status[n] = "success"
    /\ status' = [status EXCEPT ![j] = "in_progress"]
    /\ UNCHANGED <<event_name, step, ran, parse_vars, call_vars>>

\* A job is skipped when a job it needs has failed or was skipped.
SkipJob(j) ==
    /\ event_name # ""
    /\ status[j] = "queued"
    /\ \E n \in Needs(j) : status[n] \in {"failure", "skipped"}
    /\ status' = [status EXCEPT ![j] = "skipped"]
    /\ UNCHANGED <<event_name, step, ran, parse_vars, call_vars>>

\* The next step of a running job executes; when it fails the job fails and
\* its remaining steps do not run.
RunStep(j) ==
    /\ status[j] = "in_progress"
    /\ step[j] \in 1..Len(Steps(j))
    /\ IfHolds(j, Steps(j)[step[j]], event_name)
    /\ ran' = ran \cup {<<j, Steps(j)[step[j]].name>>}
    /\ \E ok \in BOOLEAN :
           IF ok
           THEN step' = [step EXCEPT ![j] = @ + 1] /\ status' = status
           ELSE status' = [status EXCEPT ![j] = "failure"] /\ step' = step
    /\ UNCHANGED <<event_name, parse_vars, call_vars>>

\* The next step of a running job is passed over: its `if` is false.
SkipStep(j) ==
    /\ status[j] = "in_progress"
    /\ step[j] \in 1..Len(Steps(j))
    /\ ~IfHolds(j, Steps(j)[step[j]], event_name)
    /\ step' = [step EXCEPT ![j] = @ + 1]
    /\ UNCHANGED <<event_name, status, ran, parse_vars, call_vars>>

\* A job whose steps are all behind it succeeds.
FinishJob(j) ==
    /\ status[j] = "in_progress"
    /\ step[j] > Len(Steps(j))
    /\ status' = [status EXCEPT ![j] = "success"]
    /\ UNCHANGED <<event_name, step, ran, parse_vars, call_vars>>

\* No call of parse_header takes part in a run of the workflow.
WorkflowInit == line = <<>> /\ Init

WorkflowNext ==
    \/ \E e \in Events : Trigger(e)
    \/ \E j \in Jobs : StartJob(j)
    \/ \E j \in Jobs : SkipJob(j)
    \/ \E j \in Jobs : RunStep(j)
    \/ \E j \in Jobs : SkipStep(j)
    \/ \E j \in Jobs : FinishJob(j)

WorkflowSpec == WorkflowInit /\ [][WorkflowNext]_vars

\* ------------------------------------------------ claims on the workflow
PublishJobs == {Plain("publish-sdist"), Plain("publish-wheels")}

\* The publish steps of a publish job that have executed, by their target.
RanTestPyPI(j) ==
    \E x \in ran : x[1] = j /\ x[2] \in {"Publish sdist and pure-Python wheel to TestPyPI",
                                          "Publish binary wheels to TestPyPI"}
RanPyPI(j) ==
    \E x \in ran : x[1] = j /\ x[2] \in {"Publish sdist and pure-Python wheel to PyPI",
                                          "Publish binary wheels to PyPI"}

\* C24: in a run of build-wheels at most one of the two publish steps of a
\* publish job executes: the step to PyPI only in a run started by
\* `release`, the step to TestPyPI only in one started by
\* `workflow_dispatch`.
C24_PublishStepsExclusive ==
    \A j \in PublishJobs :
        /\ ~(RanTestPyPI(j) /\ RanPyPI(j))
        /\ RanPyPI(j) => (event_name = "release")
        /\ RanTestPyPI(j) => (event_name = "workflow_dispatch")

\* Both publish jobs of a run have executed a publish step.
C24_Witness ==
    \A j \in PublishJobs : RanTestPyPI(j) \/ RanPyPI(j)

Started(j) == status[j] \in {"in_progress", "success", "failure"}
Succeeded(n) == status[Plain(n)] = "success"

\* C25: a job has started only when the jobs before it in the chain have
\* succeeded: publish-wheels after check-wheels and publish-sdist,
\* check-wheels after every build-wheels job, publish-sdist after
\* upload-sdist, upload-sdist and build-wheels after build-sdist; and a
\* step that publishes wheels has executed only when the sdist was built,
\* checked, tested and published.
C25_JobsFollowNeeds ==
    /\ Started(Plain("publish-wheels"))
           => (Succeeded("check-wheels") /\ Succeeded("publish-sdist"))
    /\ Started(Plain("check-wheels")) => \A m \in MatrixJobs : status[m] = "success"
    /\ Started(Plain("publish-sdist")) => Succeeded("upload-sdist")
    /\ Started(Plain("upload-sdist")) => Succeeded("build-sdist")
    /\ \A m \in MatrixJobs : Started(m) => Succeeded("build-sdist")
    /\ (RanTestPyPI(Plain("publish-wheels")) \/ RanPyPI(Plain("publish-wheels")))
           => /\ \A n \in {"Build sdist and pure-Python wheel", "Check built artifacts",
                            "Test sdist"} : <<Plain("build-sdist"), n>> \in ran
              /\ RanTestPyPI(Plain("publish-sdist")) \/ RanPyPI(Plain("publish-sdist"))
              /\ Succeeded("publish-sdist")

\* The wheels were published to PyPI in a run started by a release.
C25_Witness ==
    /\ event_name = "release"
    /\ RanPyPI(Plain("publish-wheels"))
    /\ status[Plain("publish-wheels")] = "success"

====
